---- MODULE Spec2Model ----
(***************************************************************************)
(* glslwatch: a GLSL source tree with #include support, cached in memory   *)
(* and refreshed from disk on demand (src/src/lib.rs, src/src/preprocess.rs*)
(*                                                                         *)
(* Text is modelled at character level: a line is a sequence of one-       *)
(* character strings, a file is a sequence of lines, a path is a sequence  *)
(* of characters.  The filesystem is a function from the paths of a small  *)
(* universe to file records.                                               *)
(***************************************************************************)
EXTENDS Integers, Sequences, FiniteSets, TLC

VARIABLES
    fs,        \* the filesystem: path -> [exists, readable, lines, mtime]
    tree,      \* the caller's GLSLTree value (built = FALSE: the caller holds none)
    result,    \* what the last call returned to the caller
    call,      \* the constructor call the tree descends from: its arguments
    origin,    \* "new" / "refresh": the call that built the tree, while no file
               \* has changed since; "stale" after a change; "none" without a tree
    prev,      \* resolved paths held by the tree that the last refresh() consumed
    clock,     \* the filesystem's time source
    changes,   \* number of external changes made so far
    loading,   \* one AnnotatedGLSL::load call, statement by statement
    build      \* one GLSLTree::build_node recursion, call by call

vars == <<fs, tree, result, call, origin, prev, clock, changes, loading, build>>

(***************************************************************************)
(* Characters and strings                                                  *)
(***************************************************************************)
Digits == <<"0", "1", "2", "3", "4", "5", "6", "7", "8", "9">>

IsDigit(c) == \E i \in 1..10 : Digits[i] = c

DigitVal(c) == (CHOOSE i \in 1..10 : Digits[i] = c) - 1

\* char::is_whitespace, on the characters a line can hold
IsWhitespace(c) == c \in {" ", "\t"}

\* str::parse::<usize>() of a run of decimal digits
RECURSIVE ParseUsize(_)
ParseUsize(s) ==
    IF s = <<>> THEN 0
    ELSE 10 * ParseUsize(SubSeq(s, 1, Len(s) - 1)) + DigitVal(s[Len(s)])

\* Display of a usize: its decimal digits, no leading zero
RECURSIVE FormatUsize(_)
FormatUsize(n) ==
    IF n < 10 THEN <<Digits[n + 1]>>
    ELSE FormatUsize(n \div 10) \o <<Digits[(n % 10) + 1]>>

\* [String].join(sep)
RECURSIVE JoinLines(_, _)
JoinLines(ls, sep) ==
    IF ls = <<>> THEN <<>>
    ELSE IF Len(ls) = 1 THEN ls[1]
    ELSE ls[1] \o sep \o JoinLines(Tail(ls), sep)

(***************************************************************************)
(* preprocess.rs: directive recognition                                    *)
(***************************************************************************)
NoDirective == [kind |-> "None", version |-> 0, path |-> <<>>]

\* VERSION_RE = \s*(\d\d\d)\s*$ , unanchored on the left: capture group 1, or <<>>
\* when the text does not match.
VersionCapture(s) ==
    LET ends == {e \in 3..Len(s) :
                    /\ \A k \in (e + 1)..Len(s) : IsWhitespace(s[k])
                    /\ \A k \in (e - 2)..e : IsDigit(s[k])}
    IN  IF ends = {} THEN <<>>
        ELSE LET e == CHOOSE x \in ends : TRUE IN SubSeq(s, e - 2, e)

\* INCLUDE_RE = ("|<)([^">]+)("|>)$ , unanchored on the left: capture group 2 of
\* the leftmost match, or <<>> when the text does not match.
IncludeCapture(s) ==
    LET n == Len(s)
        starts == {b \in 1..(n - 2) :
                      /\ s[b] \in {"\"", "<"}
                      /\ s[n] \in {"\"", ">"}
                      /\ \A k \in (b + 1)..(n - 1) : s[k] \notin {"\"", ">"}}
    IN  IF starts = {} THEN <<>>
        ELSE LET b == CHOOSE x \in starts : \A y \in starts : x <= y
             IN  SubSeq(s, b + 1, n - 1)

\* fn directive(line): the first non-whitespace character must be '#', the next
\* seven characters the keyword; the character after the keyword is skipped
\* unread and the rest is matched against the keyword's pattern.
directive(line) ==
    LET nonws == {k \in 1..Len(line) : ~IsWhitespace(line[k])}
    IN  IF nonws = {} THEN NoDirective
        ELSE
          LET j == CHOOSE x \in nonws : \A y \in nonws : x <= y
              kw == IF j + 7 <= Len(line) THEN SubSeq(line, j + 1, j + 7) ELSE <<>>
              hasRest == j + 8 <= Len(line)
              rest == SubSeq(line, j + 9, Len(line))
          IN  IF line[j] # "#" THEN NoDirective
              ELSE IF kw = <<"i", "n", "c", "l", "u", "d", "e">> THEN
                  IF hasRest /\ IncludeCapture(rest) # <<>>
                  THEN [kind |-> "Include", version |-> 0, path |-> IncludeCapture(rest)]
                  ELSE NoDirective
              ELSE IF kw = <<"v", "e", "r", "s", "i", "o", "n">> THEN
                  IF hasRest /\ VersionCapture(rest) # <<>>
                  THEN [kind |-> "Version", version |-> ParseUsize(VersionCapture(rest)),
                        path |-> <<>>]
                  ELSE NoDirective
              ELSE NoDirective

(***************************************************************************)
(* The filesystem the library reads                                        *)
(***************************************************************************)
Absent == [exists |-> FALSE, readable |-> FALSE, lines |-> <<>>, mtime |-> 0]

\* File::open(path): succeeds on an existing, readable file
CanOpen(f, p) == p \in DOMAIN f /\ f[p].exists /\ f[p].readable

\* PathBuf::new() with push(dir) and push(path): an absolute path replaces the
\* buffer, otherwise the components are joined by one separator
PathJoin(dir, p) ==
    IF p # <<>> /\ p[1] = "/" THEN p
    ELSE IF dir = <<>> THEN p
    ELSE IF dir[Len(dir)] = "/" THEN dir \o p
    ELSE dir \o <<"/">> \o p

(***************************************************************************)
(* preprocess.rs: AnnotatedGLSL                                            *)
(***************************************************************************)
NoVersion == [some |-> FALSE, line |-> 0, version |-> 0]

NoSource == [lines |-> <<>>, version_pragma |-> NoVersion, includes |-> <<>>,
             mtime |-> 0, path |-> <<>>]

\* the fold with the search directories tried before the path as written
FindPath_DirsFirst(f, path, search_dirs, k) ==
    LET cands == [i \in 1..Len(search_dirs) |-> PathJoin(search_dirs[i], path)]
                     \o <<path>>
        opens == {i \in 1..Len(cands) : CanOpen(f, cands[i])}
    IN  IF opens = {} THEN <<>>
        ELSE <<cands[CHOOSE i \in opens : \A j \in opens : i <= j]>>

\* the fold over search_dirs: the path as written first, then each directory in
\* order, keeping the first candidate that opens; <<>> when none opens
RECURSIVE FindPath(_, _, _, _)
FindPath(f, path, search_dirs, k) ==
    IF k = 0 THEN
        IF CanOpen(f, path) THEN <<path>> ELSE FindPath(f, path, search_dirs, 1)
    ELSE IF k > Len(search_dirs) THEN <<>>
    ELSE IF CanOpen(f, PathJoin(search_dirs[k], path))
         THEN <<PathJoin(search_dirs[k], path)>>
         ELSE FindPath(f, path, search_dirs, k + 1)

\* the loop keeping the first matching version line
VersionPragma_First(lines) ==
    LET vs == {i \in 1..Len(lines) : directive(lines[i]).kind = "Version"}
    IN  IF vs = {} THEN NoVersion
        ELSE LET i == CHOOSE x \in vs : \A y \in vs : x <= y
             IN  [some |-> TRUE, line |-> i, version |-> directive(lines[i]).version]

\* the loop over the lines: every matching version line overwrites
\* version_pragma, so the value left is the one of the last matching line.
\* Line indices are 1-based here (the code's i + 1).
VersionPragma(lines) ==
    LET vs == {i \in 1..Len(lines) : directive(lines[i]).kind = "Version"}
    IN  IF vs = {} THEN NoVersion
        ELSE LET i == CHOOSE x \in vs : \A y \in vs : y <= x
             IN  [some |-> TRUE, line |-> i, version |-> directive(lines[i]).version]

Includes(lines) ==
    [i \in {k \in 1..Len(lines) : directive(lines[k]).kind = "Include"} |->
        directive(lines[i]).path]

\* AnnotatedGLSL::load(path, search_dirs)
load(f, path, search_dirs) ==
    LET found == FindPath(f, path, search_dirs, 0)
    IN  IF found = <<>> THEN [ok |-> FALSE, src |-> NoSource]
        ELSE [ok |-> TRUE,
              src |-> [lines |-> f[found[1]].lines,
                       version_pragma |-> VersionPragma(f[found[1]].lines),
                       includes |-> Includes(f[found[1]].lines),
                       mtime |-> f[found[1]].mtime,
                       path |-> found[1]]]

\* expired() with the comparison not strict
SrcExpired_NotStrict(f, src) ==
    IF ~CanOpen(f, src.path) THEN "err"
    ELSE IF src.mtime <= f[src.path].mtime THEN "true"
    ELSE "false"

\* AnnotatedGLSL::expired(): "err" when the file no longer opens
SrcExpired(f, src) ==
    IF ~CanOpen(f, src.path) THEN "err"
    ELSE IF src.mtime < f[src.path].mtime THEN "true"
    ELSE "false"

(***************************************************************************)
(* lib.rs: errors                                                          *)
(***************************************************************************)
NoError == [kind |-> "None", branch |-> <<>>, root_version |-> 0,
            src_version |-> 0, src_path |-> <<>>]

IoError == [NoError EXCEPT !.kind = "Io"]

MissingRoot == [NoError EXCEPT !.kind = "MissingRoot"]

CycleError(branch) == [NoError EXCEPT !.kind = "Cycle", !.branch = branch]

VersionMismatch(root_version, src_version, src_path) ==
    [NoError EXCEPT !.kind = "VersionMismatch", !.root_version = root_version,
                    !.src_version = src_version, !.src_path = src_path]

(***************************************************************************)
(* lib.rs: GLSLTree::build_node                                            *)
(***************************************************************************)
EmptyMap == <<>>

MapInsert(m, k, v) == [x \in DOMAIN m \cup {k} |-> IF x = k THEN v ELSE m[x]]

\* push_front that adds at the far end of the list
PushBack(list, x) == list \o <<x>>

\* rpds List::push_front: index 1 is the head of the list
PushFront(list, x) == <<x>> \o list

NoneVersion == [some |-> FALSE, v |-> 0]

SomeVersion(v) == [some |-> TRUE, v |-> v]

BuildOk(m) == [ok |-> TRUE, map |-> m, err |-> NoError]

BuildErr(e) == [ok |-> FALSE, map |-> EmptyMap, err |-> e]

\* HashMap<usize, String>::into_iter(): the entries in an order the hasher
\* decides; every order of the keys is possible
IterOrders(includes) ==
    LET n == Cardinality(DOMAIN includes)
    IN  {o \in [1..n -> DOMAIN includes] : \A a, b \in 1..n : a # b => o[a] # o[b]}

\* the cycle check against the including file alone, not its ancestors
FirstCycle_SelfOnly(includes, order, branch) ==
    LET hits == {k \in 1..Len(order) : includes[order[k]] = branch[1]}
    IN  IF hits = {} THEN <<>>
        ELSE LET k == CHOOSE x \in hits : \A y \in hits : x <= y
             IN  <<CycleError(PushFront(branch, includes[order[k]]))>>

\* the cycle check mapped over include_files and collected: the first Err in
\* iteration order, if any
FirstCycle(includes, order, branch) ==
    LET hits == {k \in 1..Len(order) :
                    \E j \in 1..Len(branch) : includes[order[k]] = branch[j]}
    IN  IF hits = {} THEN <<>>
        ELSE LET k == CHOOSE x \in hits : \A y \in hits : x <= y
             IN  <<CycleError(PushFront(branch, includes[order[k]]))>>

\* the version the root passes down: its pragma, else 110
RootVersion(src) ==
    IF src.version_pragma.some THEN SomeVersion(src.version_pragma.version)
    ELSE SomeVersion(110)

RECURSIVE build_node(_, _, _, _, _, _)
RECURSIVE FoldBuild(_, _, _, _, _, _, _, _)

\* build_node with an include that names an ancestor skipped instead of
\* reported
build_node_SkipCycle(f, path, include_dirs, branch, version, src_map) ==
    LET ld == IF branch = <<>> THEN load(f, path, <<>>) ELSE load(f, path, include_dirs)
        src == ld.src
    IN  IF ~ld.ok THEN {BuildErr(IoError)}
        ELSE IF /\ version.some
                /\ src.version_pragma.some
                /\ version.v # src.version_pragma.version
        THEN {BuildErr(VersionMismatch(version.v, src.version_pragma.version, path))}
        ELSE
          LET version2 == IF branch = <<>> THEN RootVersion(src) ELSE version
              branch2 == PushFront(branch, path)
              InBranch(i) == \E j \in 1..Len(branch2) : src.includes[i] = branch2[j]
          IN  UNION {
                  FoldBuild(f, src.includes, SelectSeq(o, LAMBDA i : ~InBranch(i)), 1,
                            include_dirs, branch2, version2,
                            {BuildOk(MapInsert(src_map, path, src))})
                  : o \in IterOrders(src.includes)}

\* The set of results build_node can return: one per iteration order of the
\* includes of each node loaded.
build_node(f, path, include_dirs, branch, version, src_map) ==
    LET ld == IF branch = <<>> THEN load(f, path, <<>>) ELSE load(f, path, include_dirs)
        src == ld.src
    IN  IF ~ld.ok THEN {BuildErr(IoError)}
        ELSE IF /\ version.some
                /\ src.version_pragma.some
                /\ version.v # src.version_pragma.version
        THEN {BuildErr(VersionMismatch(version.v, src.version_pragma.version, path))}
        ELSE
          LET version2 == IF branch = <<>> THEN RootVersion(src) ELSE version
              branch2 == PushFront(branch, path)
          IN  UNION {
                  IF FirstCycle(src.includes, o, branch2) # <<>>
                  THEN {BuildErr(FirstCycle(src.includes, o, branch2)[1])}
                  ELSE FoldBuild(f, src.includes, o, 1, include_dirs, branch2, version2,
                                 {BuildOk(MapInsert(src_map, path, src))})
                  : o \in IterOrders(src.includes)}

\* include_files.into_iter().fold(Ok(src_map), ...): an Err is passed through,
\* an Ok map is handed to build_node for the next included file
FoldBuild(f, includes, order, k, include_dirs, branch, version, acc) ==
    IF k > Len(order) THEN acc
    ELSE FoldBuild(f, includes, order, k + 1, include_dirs, branch, version,
                   UNION {IF r.ok
                          THEN build_node(f, includes[order[k]], include_dirs, branch,
                                          version, r.map)
                          ELSE {r} : r \in acc})

(***************************************************************************)
(* lib.rs: GLSLTree::render_node                                           *)
(***************************************************************************)
RECURSIVE render_node(_, _, _)
RECURSIVE RenderFrom(_, _, _, _)

\* RenderFrom with the version pragma line emitted like any other line
RenderFrom_KeepPragma(src, src_map, seen, i) ==
    IF i > Len(src.lines) THEN [lines |-> <<>>, seen |-> seen]
    ELSE IF i \in DOMAIN src.includes /\ src.includes[i] \in DOMAIN src_map THEN
        IF src.includes[i] \in seen THEN RenderFrom(src, src_map, seen, i + 1)
        ELSE
          LET sub == render_node(src_map[src.includes[i]], src_map,
                                 seen \cup {src.includes[i]})
              rest == RenderFrom(src, src_map, sub.seen, i + 1)
          IN  [lines |-> sub.lines \o rest.lines, seen |-> rest.seen]
    ELSE
      LET rest == RenderFrom(src, src_map, seen, i + 1)
      IN  [lines |-> <<src.lines[i]>> \o rest.lines, seen |-> rest.seen]

\* the lines of src from line i on, with the seen set threaded through;
\* returns the lines emitted and the seen set afterwards
RenderFrom(src, src_map, seen, i) ==
    IF i > Len(src.lines) THEN [lines |-> <<>>, seen |-> seen]
    ELSE IF i \in DOMAIN src.includes /\ src.includes[i] \in DOMAIN src_map THEN
        IF src.includes[i] \in seen THEN RenderFrom(src, src_map, seen, i + 1)
        ELSE
          LET sub == render_node(src_map[src.includes[i]], src_map,
                                 seen \cup {src.includes[i]})
              rest == RenderFrom(src, src_map, sub.seen, i + 1)
          IN  [lines |-> sub.lines \o rest.lines, seen |-> rest.seen]
    ELSE IF src.version_pragma.some /\ src.version_pragma.line = i
         THEN RenderFrom(src, src_map, seen, i + 1)
    ELSE
      LET rest == RenderFrom(src, src_map, seen, i + 1)
      IN  [lines |-> <<src.lines[i]>> \o rest.lines, seen |-> rest.seen]

render_node(src, src_map, seen) == RenderFrom(src, src_map, seen, 1)

(***************************************************************************)
(* lib.rs: GLSLTree                                                        *)
(***************************************************************************)
NoTree == [built |-> FALSE, include_dirs |-> <<>>, src_map |-> EmptyMap,
           root_path |-> <<>>, rendered |-> <<>>]

\* a byte sequence that is not valid UTF-8, held as one character of a path
InvalidByte == "<FF>"

\* Path::to_str(): None when the path is not valid UTF-8
ToStrOk(p) == \A i \in 1..Len(p) : p[i] # InvalidByte

\* filter_map over include_dirs: directories that are not valid UTF-8 are dropped
RECURSIVE DirStrings(_)
DirStrings(dirs) ==
    IF dirs = <<>> THEN <<>>
    ELSE IF ToStrOk(Head(dirs)) THEN <<Head(dirs)>> \o DirStrings(Tail(dirs))
    ELSE DirStrings(Tail(dirs))

\* format!("#version {}", v)
VersionHeader(v) == <<"#", "v", "e", "r", "s", "i", "o", "n", " ">> \o FormatUsize(v)

\* the header line always given default_version
HeaderVersion_DefaultOnly(root_src, default_version) == default_version

\* the version of the header line: the root's pragma, else default_version
HeaderVersion(root_src, default_version) ==
    IF root_src.version_pragma.some THEN root_src.version_pragma.version
    ELSE default_version

\* the rendered string of a built src_map
Rendered(src_map, root_path, default_version) ==
    JoinLines(<<VersionHeader(HeaderVersion(src_map[root_path], default_version))>>
                  \o render_node(src_map[root_path], src_map, {}).lines,
              <<"\n">>)

CtorOk(t) == [ok |-> TRUE, tree |-> t, err |-> NoError]

CtorErr(e) == [ok |-> FALSE, tree |-> NoTree, err |-> e]

\* GLSLTree::with_default_version: the set of values it can return
with_default_version(f, path, include_dirs, default_version) ==
    IF ~ToStrOk(path) THEN {CtorErr(MissingRoot)}
    ELSE
      LET dirs == DirStrings(include_dirs)
      IN  {IF b.ok
           THEN CtorOk([built |-> TRUE,
                        include_dirs |-> dirs,
                        src_map |-> b.map,
                        root_path |-> path,
                        rendered |-> Rendered(b.map, path, default_version)])
           ELSE CtorErr(b.err)
           : b \in build_node(f, path, dirs, <<>>, NoneVersion, EmptyMap)}

\* GLSLTree::new
new(f, path, include_dirs) == with_default_version(f, path, include_dirs, 110)

\* refresh that traces again into the cached map instead of an empty one
refresh_KeepOld(f, t) ==
    {IF b.ok
     THEN CtorOk([built |-> TRUE,
                  include_dirs |-> t.include_dirs,
                  src_map |-> b.map,
                  root_path |-> t.root_path,
                  rendered |-> Rendered(b.map, t.root_path, 110)])
     ELSE CtorErr(b.err)
     : b \in build_node(f, t.root_path, t.include_dirs, <<>>, NoneVersion, t.src_map)}

\* GLSLTree::refresh
refresh(f, t) == new(f, t.root_path, t.include_dirs)

\* expired() with an entry whose stat fails counted as not expired
expired_IgnoreErr(f, t) ==
    [ok |-> TRUE,
     value |-> "true" \in {SrcExpired(f, t.src_map[k]) : k \in DOMAIN t.src_map}]

\* GLSLTree::expired: Err as soon as one entry's stat fails, else whether any
\* entry is expired
expired(f, t) ==
    LET each == {SrcExpired(f, t.src_map[k]) : k \in DOMAIN t.src_map}
    IN  IF "err" \in each THEN [ok |-> FALSE, value |-> FALSE]
        ELSE [ok |-> TRUE, value |-> "true" \in each]

\* GLSLTree::render
render(t) == t.rendered

(***************************************************************************)
(* The files of the model                                                  *)
(***************************************************************************)
RootPath == <<"r">>
PathA == <<"a">>
PathB == <<"b">>
PathC == <<"c">>
Dir == <<"d">>
PathDA == PathJoin(Dir, PathA)

Paths == {RootPath, PathA, PathB, PathC, PathDA}

\* "#version NNN"
VersionLine(v) == <<"#", "v", "e", "r", "s", "i", "o", "n", " ">> \o FormatUsize(v)

\* #include "path"
IncludeLine(p) == <<"#", "i", "n", "c", "l", "u", "d", "e", " ", "\"">> \o p \o <<"\"">>

\* the one line of plain text of the file at path p, different for every path
BodyLine(p) == <<"/", "/">> \o p

RECURSIVE VersionLines(_)
VersionLines(vs) ==
    IF vs = <<>> THEN <<>> ELSE <<VersionLine(Head(vs))>> \o VersionLines(Tail(vs))

RECURSIVE IncludeLines(_)
IncludeLines(ps) ==
    IF ps = <<>> THEN <<>> ELSE <<IncludeLine(Head(ps))>> \o IncludeLines(Tail(ps))

\* a file at path p: its version lines, its include lines, its line of text
Content(p, vs, incs) == VersionLines(vs) \o IncludeLines(incs) \o <<BodyLine(p)>>

File(lines, t) == [exists |-> TRUE, readable |-> TRUE, lines |-> lines, mtime |-> t]

\* the contents each path can hold when a tree is constructed
TreeContents(p) ==
    IF p = RootPath THEN
        {Content(p, vs, incs) :
            vs \in {<<>>, <<150>>},
            incs \in {<<>>, <<PathA>>, <<PathA, PathB>>, <<PathA, PathDA>>}}
    ELSE IF p = PathA THEN
        {Content(p, vs, incs) :
            vs \in {<<>>, <<110>>, <<150>>, <<110, 150>>},
            incs \in {<<>>, <<PathC>>, <<RootPath>>, <<PathA>>}}
    ELSE IF p = PathB THEN
        {Content(p, <<>>, incs) : incs \in {<<>>, <<PathC>>, <<PathA>>}}
    ELSE IF p = PathC THEN
        {Content(p, vs, <<>>) : vs \in {<<>>, <<150>>}}
    ELSE
        {Content(p, <<>>, incs) : incs \in {<<>>, <<PathA>>, <<PathDA>>}}

TreeFiles(p) ==
    {File(c, 0) : c \in TreeContents(p)} \cup (IF p = RootPath THEN {} ELSE {Absent})

MakeFs(fr, fa, fb, fc, fda) ==
    [p \in Paths |->
        IF p = RootPath THEN fr
        ELSE IF p = PathA THEN fa
        ELSE IF p = PathB THEN fb
        ELSE IF p = PathC THEN fc
        ELSE fda]

DefaultVersions == {110, 150}

DirLists == {<<>>, <<Dir>>}

\* the root paths a caller passes: the root shader, the empty path, and a path
\* that is not valid UTF-8
RootArgs == {RootPath, <<>>, <<InvalidByte>>}

(***************************************************************************)
(* Calls and their results                                                 *)
(***************************************************************************)
NoCall == [op |-> "none", path |-> <<>>, include_dirs |-> <<>>, default_version |-> 0]

NoResult == [op |-> "none", ok |-> FALSE, err |-> NoError, value |-> FALSE]

CtorResult(op, r) == [op |-> op, ok |-> r.ok, err |-> r.err, value |-> FALSE]

\* no load call is in progress
NoLoading == [pc |-> "idle", path |-> <<>>, search_dirs |-> <<>>, found |-> <<>>,
              lines |-> <<>>, src |-> NoSource]

\* no build_node recursion is in progress
NoBuild == [status |-> "idle", include_dirs |-> <<>>, version |-> NoneVersion,
            stack |-> <<>>, src_map |-> EmptyMap, err |-> NoError]

\* the resolved paths a tree holds
TreePaths(t) == {t.src_map[k].path : k \in DOMAIN t.src_map}

\* the caller constructs a tree: GLSLTree::with_default_version (GLSLTree::new
\* when default_version is 110)
Construct(path, dirs, dv) ==
    /\ ~tree.built
    /\ result.op = "none"
    /\ \E r \in with_default_version(fs, path, dirs, dv) :
          /\ tree' = r.tree
          /\ result' = CtorResult("new", r)
          /\ origin' = IF r.ok THEN "new" ELSE "none"
    /\ call' = [op |-> "new", path |-> path, include_dirs |-> dirs,
                default_version |-> dv]
    /\ UNCHANGED <<fs, prev, clock, changes, loading, build>>

TreeInit ==
    /\ fs \in {MakeFs(fr, fa, fb, fc, fda) :
                   fr \in TreeFiles(RootPath), fa \in TreeFiles(PathA),
                   fb \in TreeFiles(PathB), fc \in TreeFiles(PathC),
                   fda \in TreeFiles(PathDA)}
    /\ tree = NoTree
    /\ result = NoResult
    /\ call = NoCall
    /\ origin = "none"
    /\ prev = {}
    /\ clock = 0
    /\ changes = 0
    /\ loading = NoLoading
    /\ build = NoBuild

TreeNext == \E dirs \in DirLists, dv \in DefaultVersions : Construct(RootPath, dirs, dv)

\* construction alone, over every filesystem of the model
SpecTree == TreeInit /\ [][TreeNext]_vars

(***************************************************************************)
(* Notions the properties are stated in                                    *)
(***************************************************************************)
\* the lines of a rendered string
RECURSIVE SplitAt(_, _, _)
SplitAt(text, i, cur) ==
    IF i > Len(text) THEN <<cur>>
    ELSE IF text[i] = "\n" THEN <<cur>> \o SplitAt(text, i + 1, <<>>)
    ELSE SplitAt(text, i + 1, Append(cur, text[i]))

RenderedLines == SplitAt(tree.rendered, 1, <<>>)

\* how many rendered lines are the text line of the file at path p
BodyCount(p) == Cardinality({i \in 1..Len(RenderedLines) : RenderedLines[i] = BodyLine(p)})

IsVersionLine(l) == directive(l).kind = "Version"

\* the search directories of the last call, as the constructor keeps them
CallDirs == DirStrings(call.include_dirs)

\* the file an include target names: its resolved path, <<>> when none opens
Resolved(name) == FindPath(fs, name, CallDirs, 0)

\* the include targets written in the file at path p
IncludeNames(p) ==
    {directive(fs[p].lines[i]).path :
        i \in {k \in 1..Len(fs[p].lines) : directive(fs[p].lines[k]).kind = "Include"}}

\* the files the file at p includes, by resolved path
IncludedFiles(p) == {Resolved(n)[1] : n \in {m \in IncludeNames(p) : Resolved(m) # <<>>}}

RECURSIVE Closure(_)
Closure(S) ==
    LET N == S \cup UNION {IncludedFiles(p) : p \in S}
    IN  IF N = S THEN S ELSE Closure(N)

\* the files reachable from the root of the last call by include directives
Reachable == IF CanOpen(fs, call.path) THEN Closure({call.path}) ELSE {}

\* some reachable file is among its own ancestors
HasCycle == \E p \in Reachable : p \in Closure(IncludedFiles(p))

\* every include directive of every reachable file names a file that opens
AllResolve == \A p \in Reachable : \A n \in IncludeNames(p) : Resolved(n) # <<>>

DeclaredVersion(p) == VersionPragma(fs[p].lines)

\* the version build_node holds every included file to
CheckedVersion ==
    IF DeclaredVersion(call.path).some THEN DeclaredVersion(call.path).version ELSE 110

\* the effective version: the root's pragma, else the caller's default
EffectiveVersion ==
    IF DeclaredVersion(call.path).some THEN DeclaredVersion(call.path).version
    ELSE call.default_version

NoMismatch ==
    \A p \in Reachable \ {call.path} :
        DeclaredVersion(p).some => DeclaredVersion(p).version = CheckedVersion

Constructed == result.op = "new" /\ result.ok

(***************************************************************************)
(* C1                                                                      *)
(***************************************************************************)
\* C1 as claimed: whenever a file reachable from the root is among its own
\* ancestors, construction fails with Error::Cycle and returns no tree.
C1_Claim ==
    (result.op = "new" /\ HasCycle) =>
        (~result.ok /\ ~tree.built /\ result.err.kind = "Cycle")

\* C1 amended: whenever a file reachable from the root is among its own
\* ancestors, construction fails and returns no tree; the error is Error::Cycle
\* when every include directive of the graph names a file that opens and no
\* included file declares a version other than the one checked, and otherwise
\* it is the Cycle, I/O or VersionMismatch error that the traversal meets first.
C1_CycleFails ==
    (result.op = "new" /\ HasCycle) =>
        /\ ~result.ok
        /\ ~tree.built
        /\ result.err.kind \in {"Cycle", "Io", "VersionMismatch"}
        /\ (AllResolve /\ NoMismatch) => result.err.kind = "Cycle"

\* a cycle through the root was met and reported
C1_Witness ==
    /\ result.op = "new"
    /\ HasCycle
    /\ call.path \in Closure(IncludedFiles(call.path))
    /\ result.err.kind = "Cycle"

(***************************************************************************)
(* C2                                                                      *)
(***************************************************************************)
\* C2 as claimed: in a constructed tree every non-root file that declares a
\* version declares the effective version (the root's pragma, else the caller's
\* default_version), and a VersionMismatch error carries the effective version,
\* the differing version the file declares, and the file's path.
C2_Claim ==
    /\ Constructed =>
          \A k \in DOMAIN tree.src_map \ {tree.root_path} :
              tree.src_map[k].version_pragma.some =>
                  tree.src_map[k].version_pragma.version = EffectiveVersion
    /\ (result.op = "new" /\ result.err.kind = "VersionMismatch") =>
          /\ result.err.root_version = EffectiveVersion
          /\ result.err.src_version # EffectiveVersion
          /\ Resolved(result.err.src_path) # <<>>
          /\ DeclaredVersion(Resolved(result.err.src_path)[1]).some
          /\ DeclaredVersion(Resolved(result.err.src_path)[1]).version
                 = result.err.src_version

(***************************************************************************)
(* C3                                                                      *)
(***************************************************************************)
\* C3 as claimed: in the rendered text of a constructed tree the body of each
\* file, a file being identified by its resolved path, appears at most once.
C3_Claim == Constructed => \A p \in Paths : BodyCount(p) <= 1

(***************************************************************************)
(* C7                                                                      *)
(***************************************************************************)
RECURSIVE CountVersionLines(_)
CountVersionLines(ls) ==
    IF ls = <<>> THEN 0
    ELSE (IF IsVersionLine(Head(ls)) THEN 1 ELSE 0) + CountVersionLines(Tail(ls))

\* the matching version lines of the tree's files that are not the recorded
\* pragma of their file
RECURSIVE UnrecordedVersionLines(_, _)
UnrecordedVersionLines(m, keys) ==
    IF keys = {} THEN 0
    ELSE LET k == CHOOSE x \in keys : TRUE
             n == CountVersionLines(m[k].lines)
         IN  (IF n > 0 THEN n - 1 ELSE 0) + UnrecordedVersionLines(m, keys \ {k})

\* C7 as claimed: the rendered text has exactly one version line, the
\* synthesized one, as its first line; no pragma line of a file is in it.
C7_Claim ==
    Constructed =>
        /\ RenderedLines[1] = VersionHeader(EffectiveVersion)
        /\ CountVersionLines(RenderedLines) = 1

\* C7 amended: the first rendered line is the synthesized version line and the
\* line recorded as a file's version pragma (its last matching line) is never
\* emitted; a file's other matching lines are emitted as text, so the rendered
\* text has exactly one version line exactly when no file of the tree has more
\* than one line matching the #version pattern.
C7_RecordedPragmaDropped ==
    Constructed =>
        /\ RenderedLines[1] = VersionHeader(EffectiveVersion)
        /\ CountVersionLines(Tail(RenderedLines))
               = UnrecordedVersionLines(tree.src_map, DOMAIN tree.src_map)

\* the root and an included file both carry a pragma, and none is rendered
C7_Witness ==
    /\ Constructed
    /\ tree.src_map[tree.root_path].version_pragma.some
    /\ \E k \in DOMAIN tree.src_map \ {tree.root_path} :
          tree.src_map[k].version_pragma.some
    /\ CountVersionLines(RenderedLines) = 1

(***************************************************************************)
(* C8                                                                      *)
(***************************************************************************)
\* each entry of the list b is included by the entry after it
IncludedByNext(b) ==
    \A i \in 1..(Len(b) - 1) :
        /\ Resolved(b[i + 1]) # <<>>
        /\ b[i] \in IncludeNames(Resolved(b[i + 1])[1])

\* each entry of the list b includes the entry after it
IncludesNext(b) ==
    \A i \in 1..(Len(b) - 1) :
        /\ Resolved(b[i]) # <<>>
        /\ b[i + 1] \in IncludeNames(Resolved(b[i])[1])

CycleReported == result.op = "new" /\ result.err.kind = "Cycle"

RECURSIVE FlattenFrom(_, _, _)
FlattenFrom(p, seen, i) ==
    LET ls == fs[p].lines
    IN  IF i > Len(ls) THEN [lines |-> <<>>, seen |-> seen]
        ELSE IF directive(ls[i]).kind = "Include" /\ Resolved(directive(ls[i]).path) # <<>>
        THEN
          LET q == Resolved(directive(ls[i]).path)[1]
          IN  IF q \in seen THEN FlattenFrom(p, seen, i + 1)
              ELSE LET sub == FlattenFrom(q, seen \cup {q}, 1)
                       rest == FlattenFrom(p, sub.seen, i + 1)
                   IN  [lines |-> sub.lines \o rest.lines, seen |-> rest.seen]
        ELSE IF DeclaredVersion(p).some /\ DeclaredVersion(p).line = i
             THEN FlattenFrom(p, seen, i + 1)
        ELSE LET rest == FlattenFrom(p, seen, i + 1)
             IN  [lines |-> <<ls[i]>> \o rest.lines, seen |-> rest.seen]

\* C9 as claimed: the rendered text after the version line is that flattening:
\* every reachable file's body exactly once, at its first inclusion point.
C9_Claim ==
    Constructed =>
        /\ Tail(RenderedLines) = FlattenFrom(call.path, {call.path}, 1).lines
        /\ \A p \in Reachable : BodyCount(p) = 1

(***************************************************************************)
(* The life of a tree: construction, external changes, expired(), refresh()*)
(***************************************************************************)
\* how many external changes a behaviour makes
MaxChanges == 2

\* the contents an external writer gives a file
WrittenContents(p) ==
    IF p = RootPath THEN
        {Content(p, <<>>, <<PathA>>), Content(p, <<>>, <<PathA, PathB>>)}
    ELSE IF p = PathA THEN {Content(p, <<>>, <<>>), Content(p, <<>>, <<PathC>>)}
    ELSE {Content(p, <<>>, <<>>)}

LifeInit ==
    /\ fs = MakeFs(File(Content(RootPath, <<>>, <<PathA, PathB>>), 0),
                   File(Content(PathA, <<>>, <<>>), 0),
                   File(Content(PathB, <<>>, <<>>), 0),
                   Absent,
                   File(Content(PathDA, <<>>, <<>>), 0))
    /\ tree = NoTree
    /\ result = NoResult
    /\ call = NoCall
    /\ origin = "none"
    /\ prev = {}
    /\ clock = 0
    /\ changes = 0
    /\ loading = NoLoading
    /\ build = NoBuild

\* an external change: the caller's tree, if any, is no longer known to match
Changed ==
    /\ changes' = changes + 1
    /\ origin' = IF tree.built THEN "stale" ELSE "none"
    /\ result' = NoResult
    /\ prev' = {}
    /\ UNCHANGED <<tree, call, loading, build>>

\* the file's modification time is set to now
Touch(p) ==
    /\ changes < MaxChanges
    /\ fs[p].exists
    /\ clock' = clock + 1
    /\ fs' = [fs EXCEPT ![p].mtime = clock + 1]
    /\ Changed

\* the file is created or overwritten
WriteFile(p, lines) ==
    /\ changes < MaxChanges
    /\ ~fs[p].exists \/ fs[p].lines # lines
    /\ clock' = clock + 1
    /\ fs' = [fs EXCEPT ![p] = File(lines, clock + 1)]
    /\ Changed

\* the file is deleted
Remove(p) ==
    /\ changes < MaxChanges
    /\ fs[p].exists
    /\ fs' = [fs EXCEPT ![p] = Absent]
    /\ clock' = clock
    /\ Changed

\* the file is made unreadable, or readable again
Chmod(p) ==
    /\ changes < MaxChanges
    /\ fs[p].exists
    /\ fs' = [fs EXCEPT ![p].readable = ~fs[p].readable]
    /\ clock' = clock
    /\ Changed

\* the caller asks whether its tree is expired
Expired ==
    /\ tree.built
    /\ result' = [op |-> "expired", ok |-> expired(fs, tree).ok,
                  err |-> IF expired(fs, tree).ok THEN NoError ELSE IoError,
                  value |-> expired(fs, tree).value]
    /\ UNCHANGED <<fs, tree, call, origin, prev, clock, changes, loading, build>>

\* the caller refreshes its tree: the old value is consumed
Refresh ==
    /\ tree.built
    /\ \E r \in refresh(fs, tree) :
          /\ tree' = r.tree
          /\ result' = CtorResult("refresh", r)
          /\ origin' = IF r.ok THEN "refresh" ELSE "none"
    /\ prev' = TreePaths(tree)
    /\ UNCHANGED <<fs, call, clock, changes, loading, build>>

Init == LifeInit

Next ==
    \/ \E path \in RootArgs, dirs \in DirLists, dv \in DefaultVersions :
          Construct(path, dirs, dv)
    \/ Expired
    \/ Refresh
    \/ \E p \in Paths : Touch(p)
    \/ \E p \in Paths : \E c \in WrittenContents(p) : WriteFile(p, c)
    \/ \E p \in Paths : Remove(p)
    \/ \E p \in Paths : Chmod(p)

Spec == Init /\ [][Next]_vars

(***************************************************************************)
(* C4                                                                      *)
(***************************************************************************)
ExpiredAsked == result.op = "expired"

\* the file of entry k opens and is strictly newer than recorded at load
Newer(k) ==
    /\ CanOpen(fs, tree.src_map[k].path)
    /\ tree.src_map[k].mtime < fs[tree.src_map[k].path].mtime

AllStat == \A k \in DOMAIN tree.src_map : CanOpen(fs, tree.src_map[k].path)

\* C4 as claimed: expired() returns true whenever a file of the tree is
\* strictly newer on disk than recorded, and, when every stat succeeds, only
\* then.
C4_Claim ==
    ExpiredAsked =>
        /\ (\E k \in DOMAIN tree.src_map : Newer(k)) => (result.ok /\ result.value)
        /\ (AllStat /\ result.ok /\ result.value) =>
               \E k \in DOMAIN tree.src_map : Newer(k)

\* C4 amended: when every stat succeeds, expired() returns Ok, and returns true
\* exactly when a file of the tree is strictly newer on disk than recorded; when
\* a stat fails it returns the I/O error, whichever files are newer.
C4_ExpiredIffNewer ==
    ExpiredAsked =>
        /\ AllStat => (result.ok /\ (result.value <=> \E k \in DOMAIN tree.src_map : Newer(k)))
        /\ ~AllStat => ~result.ok

\* expired() answered true and answered false, each with every stat succeeding
C4_Witness ==
    /\ ExpiredAsked
    /\ AllStat
    /\ result.ok
    /\ result.value
    /\ \E k \in DOMAIN tree.src_map : ~Newer(k)

(***************************************************************************)
(* C5                                                                      *)
(***************************************************************************)
\* what the caller's constructor call renders from the files as they are now
RenderingsNow ==
    {r.tree.rendered :
        r \in {x \in with_default_version(fs, call.path, call.include_dirs,
                                          call.default_version) : x.ok}}

\* C5 as claimed: on a tree refreshed after external changes, with no change
\* since the refresh, expired() returns false and render() is the rendering of the files as they
\* are on disk.
C5_Claim ==
    (origin = "refresh" /\ changes > 0) =>
        /\ ExpiredAsked => (result.ok /\ ~result.value)
        /\ render(tree) \in RenderingsNow

\* C5, the part the code keeps: on a refreshed tree with no change since,
\* expired() returns false and the rendered lines after the version line are
\* the flattening of the files as they are on disk.
C5_ContentReflected ==
    (origin = "refresh" /\ changes > 0) =>
        /\ ExpiredAsked => (result.ok /\ ~result.value)
        /\ Tail(RenderedLines) = FlattenFrom(call.path, {call.path}, 1).lines

(***************************************************************************)
(* C6                                                                      *)
(***************************************************************************)
Built == result.op \in {"new", "refresh"} /\ result.ok

\* C6: after a successful construction or refresh the tree holds an entry for
\* the root and for every file reachable from it by include directives and for
\* no other file, and the body of a file that is not reachable is not rendered.
C6_MapIsReachable ==
    Built =>
        /\ tree.root_path \in DOMAIN tree.src_map
        /\ tree.src_map[tree.root_path].path = call.path
        /\ TreePaths(tree) = Reachable
        /\ \A p \in Paths \ Reachable : BodyCount(p) = 0

\* a refresh dropped a file that the consumed tree held and that is still on
\* disk: its include directive is gone
C6_Witness ==
    /\ result.op = "refresh"
    /\ result.ok
    /\ \E p \in prev : /\ p \notin TreePaths(tree)
                       /\ CanOpen(fs, p)
                       /\ BodyCount(p) = 0

(***************************************************************************)
(* C10                                                                     *)
(***************************************************************************)
\* C10: when a file of the tree no longer opens (deleted or unreadable),
\* expired() returns the I/O error, whatever the state of the other files.
C10_MissingFileIsError ==
    (ExpiredAsked /\ \E k \in DOMAIN tree.src_map : ~CanOpen(fs, tree.src_map[k].path))
        => (~result.ok /\ result.err.kind = "Io")

\* a file of the tree is gone while another one is newer than recorded
C10_Witness ==
    /\ ExpiredAsked
    /\ ~result.ok
    /\ \E k \in DOMAIN tree.src_map : ~fs[tree.src_map[k].path].exists
    /\ \E k \in DOMAIN tree.src_map : Newer(k)

\* a file of the tree is unreadable and the others are unchanged
C10_WitnessUnreadable ==
    /\ ExpiredAsked
    /\ ~result.ok
    /\ \E k \in DOMAIN tree.src_map :
          fs[tree.src_map[k].path].exists /\ ~fs[tree.src_map[k].path].readable

(***************************************************************************)
(* The root path argument                                                  *)
(***************************************************************************)
\* a root path that names no file: empty, or not convertible to a string
UnusableRoot(p) == p = <<>> \/ ~ToStrOk(p)

\* C11: construction with an empty or otherwise unusable root path fails with
\* MissingRoot, whatever the filesystem holds
C11_Claim ==
    (result.op = "new" /\ UnusableRoot(call.path))
        => (~result.ok /\ result.err.kind = "MissingRoot")

(***************************************************************************)
(* One load call, statement by statement, and the resolution of paths      *)
(***************************************************************************)
DirE == <<"e">>

PathEA == PathJoin(DirE, PathA)

PathDR == PathJoin(Dir, RootPath)

LoadPaths == {RootPath, PathA, PathDA, PathEA, PathDR}

\* the orders in which a caller lists the two search directories
LoadDirLists == {<<>>, <<Dir>>, <<DirE>>, <<Dir, DirE>>, <<DirE, Dir>>}

\* a file that exists and cannot be opened
Unreadable(lines) == [exists |-> TRUE, readable |-> FALSE, lines |-> lines, mtime |-> 0]

LoadFiles(p) ==
    IF p = RootPath THEN {Absent, File(Content(p, <<>>, <<PathA>>), 0)}
    ELSE IF p = PathA
         THEN {Absent, File(Content(p, <<>>, <<>>), 0), Unreadable(Content(p, <<>>, <<>>))}
    ELSE {Absent, File(Content(p, <<>>, <<>>), 0)}

\* the contents an external writer gives a file while it is being loaded
LoadWritten(p) == {Content(p, <<>>, <<>>), Content(p, <<110>>, <<>>)}

LoadInit ==
    /\ fs \in {[p \in LoadPaths |->
                   IF p = RootPath THEN fr ELSE IF p = PathA THEN fa
                   ELSE IF p = PathDA THEN fda ELSE IF p = PathEA THEN fea ELSE fdr]
               : fr \in LoadFiles(RootPath), fa \in LoadFiles(PathA),
                 fda \in LoadFiles(PathDA), fea \in LoadFiles(PathEA),
                 fdr \in LoadFiles(PathDR)}
    /\ tree = NoTree
    /\ result = NoResult
    /\ call = NoCall
    /\ origin = "none"
    /\ prev = {}
    /\ clock = 0
    /\ changes = 0
    /\ loading = NoLoading
    /\ build = NoBuild

\* preprocess.rs:25-35: the candidates are opened in turn
LoadOpen(path, search_dirs) ==
    /\ loading.pc = "idle"
    /\ LET found == FindPath(fs, path, search_dirs, 0)
       IN  loading' = [loading EXCEPT
                          !.pc = IF found = <<>> THEN "failed" ELSE "opened",
                          !.path = path,
                          !.search_dirs = search_dirs,
                          !.found = IF found = <<>> THEN <<>> ELSE found[1]]
    /\ UNCHANGED <<fs, tree, result, call, origin, prev, clock, changes, build>>

\* preprocess.rs:36-37: read_to_string on the open file
LoadRead ==
    /\ loading.pc = "opened"
    /\ loading' = [loading EXCEPT !.pc = "read", !.lines = fs[loading.found].lines]
    /\ UNCHANGED <<fs, tree, result, call, origin, prev, clock, changes, build>>

\* preprocess.rs:38-57: the lines are scanned, then the modification time is
\* read from the open file and the value is returned
LoadStat ==
    /\ loading.pc = "read"
    /\ loading' = [loading EXCEPT
                      !.pc = "done",
                      !.src = [lines |-> loading.lines,
                               version_pragma |-> VersionPragma(loading.lines),
                               includes |-> Includes(loading.lines),
                               mtime |-> fs[loading.found].mtime,
                               path |-> loading.found]]
    /\ UNCHANGED <<fs, tree, result, call, origin, prev, clock, changes, build>>

\* another process overwrites the file that load has opened
Overwrite(p, lines) ==
    /\ loading.pc \in {"opened", "read", "done"}
    /\ p = loading.found
    /\ WriteFile(p, lines)

LoadNext ==
    \/ \E path \in {RootPath, PathA} : \E dirs \in LoadDirLists : LoadOpen(path, dirs)
    \/ LoadRead
    \/ LoadStat
    \/ \E p \in LoadPaths : \E c \in LoadWritten(p) : Overwrite(p, c)
    \/ \E dirs \in LoadDirLists : Construct(RootPath, dirs, 110)

SpecLoad == LoadInit /\ [][LoadNext]_vars

\* the candidates of a name, in the order the claim gives: as written, then
\* under each search directory
Candidates(name, dirs) ==
    <<name>> \o [i \in 1..Len(dirs) |-> PathJoin(dirs[i], name)]

\* the first candidate that opens now, as a sequence of at most one path
FirstThatOpens(name, dirs) ==
    LET c == Candidates(name, dirs)
        opens == {i \in 1..Len(c) : CanOpen(fs, c[i])}
    IN  IF opens = {} THEN <<>>
        ELSE <<c[CHOOSE i \in opens : \A j \in opens : i <= j]>>

\* the statement-by-statement load returns what load returns when nothing is
\* written meanwhile
LoadAgrees ==
    (changes = 0 /\ loading.pc = "done")
        => loading.src = load(fs, loading.path, loading.search_dirs).src

\* C12: an include target is loaded from the first of "as written, then each
\* search directory in order" that opens; the root is loaded from its direct
\* path only, and construction fails when that does not open, whatever the
\* search directories hold
C12_ResolutionOrder ==
    /\ loading.pc = "failed" => FirstThatOpens(loading.path, loading.search_dirs) = <<>>
    /\ loading.pc \in {"opened", "read", "done"} =>
          FirstThatOpens(loading.path, loading.search_dirs) = <<loading.found>>
    /\ (result.op = "new" /\ ~CanOpen(fs, call.path)) =>
          (~result.ok /\ result.err.kind = "Io")
    /\ (result.op = "new" /\ result.ok) =>
          /\ tree.src_map[call.path].path = call.path
          /\ \A k \in DOMAIN tree.src_map \ {call.path} :
                FirstThatOpens(k, call.include_dirs) = <<tree.src_map[k].path>>
    /\ (result.op = "new" /\ CanOpen(fs, call.path) /\ ~result.ok) =>
          /\ result.err.kind = "Io"
          /\ \E k \in IncludeNames(call.path) : FirstThatOpens(k, call.include_dirs) = <<>>

\* the direct path does not open, both directories hold the file, and the one
\* listed first is loaded
C12_Witness ==
    /\ result.op = "new" /\ result.ok
    /\ call.include_dirs = <<DirE, Dir>>
    /\ ~CanOpen(fs, PathA) /\ fs[PathA].exists
    /\ CanOpen(fs, PathDA) /\ CanOpen(fs, PathEA)
    /\ tree.src_map[PathA].path = PathEA

\* the root is absent at its direct path and present under a search directory
C12_WitnessRoot ==
    /\ result.op = "new" /\ ~result.ok
    /\ call.include_dirs = <<Dir>>
    /\ ~CanOpen(fs, RootPath) /\ CanOpen(fs, PathDR)

(***************************************************************************)
(* build_node call by call: the recursion with its stack made explicit     *)
(***************************************************************************)
\* the call stack the process can hold: entering a call beyond it aborts
MaxDepth == 6

BuildFiles(p) == {f \in TreeFiles(p) : VersionPragma(f.lines).version # 110}

BuildInit ==
    /\ fs \in {MakeFs(fr, fa, fb, fc, fda) :
                   fr \in BuildFiles(RootPath), fa \in BuildFiles(PathA),
                   fb \in BuildFiles(PathB), fc \in BuildFiles(PathC),
                   fda \in BuildFiles(PathDA)}
    /\ tree = NoTree
    /\ result = NoResult
    /\ call = NoCall
    /\ origin = "none"
    /\ prev = {}
    /\ clock = 0
    /\ changes = 0
    /\ loading = NoLoading
    /\ build = NoBuild

\* the branch of the call in progress: the paths of the frames, innermost first
BuildBranch(b) == [i \in 1..Len(b.stack) |-> b.stack[i].path]

\* lib.rs:210-246, one call of build_node up to the fold over its includes:
\* load, version check, branch, cycle check of every include, insertion.  A
\* frame holds the includes of the node, the order the map iterates them in,
\* and the position of the fold.
Enter(b, path) ==
    LET branch == BuildBranch(b)
        ld == IF branch = <<>> THEN load(fs, path, <<>>)
              ELSE load(fs, path, b.include_dirs)
        src == ld.src
    IN  IF ~ld.ok THEN {[b EXCEPT !.status = "err", !.err = IoError]}
        ELSE IF /\ b.version.some
                /\ src.version_pragma.some
                /\ b.version.v # src.version_pragma.version
        THEN {[b EXCEPT !.status = "err",
                        !.err = VersionMismatch(b.version.v,
                                                src.version_pragma.version, path)]}
        ELSE
          LET version2 == IF branch = <<>> THEN RootVersion(src) ELSE b.version
              branch2 == PushFront(branch, path)
          IN  {IF FirstCycle(src.includes, o, branch2) # <<>>
               THEN [b EXCEPT !.status = "err",
                              !.err = FirstCycle(src.includes, o, branch2)[1]]
               ELSE [b EXCEPT !.version = version2,
                              !.src_map = MapInsert(b.src_map, path, src),
                              !.stack = PushFront(b.stack,
                                            [path |-> path, includes |-> src.includes,
                                             order |-> o, k |-> 1])]
               : o \in IterOrders(src.includes)}

\* lib.rs:152: with_default_version calls build_node on the root
BuildStart(path, dirs) ==
    /\ build.status = "idle"
    /\ build' \in Enter([NoBuild EXCEPT !.status = "running", !.include_dirs = dirs],
                        path)
    /\ UNCHANGED <<fs, tree, result, call, origin, prev, clock, changes, loading>>

\* lib.rs:247-257: the fold calls build_node on the next include of the node
BuildCall ==
    /\ build.status = "running"
    /\ build.stack # <<>>
    /\ LET top == build.stack[1]
       IN  /\ top.k <= Len(top.order)
           /\ IF Len(build.stack) >= MaxDepth
              THEN build' = [build EXCEPT !.status = "overflow"]
              ELSE build' \in Enter([build EXCEPT !.stack[1].k = top.k + 1],
                                    top.includes[top.order[top.k]])
    /\ UNCHANGED <<fs, tree, result, call, origin, prev, clock, changes, loading>>

\* lib.rs:257-258: the fold is over and the call returns the map
BuildReturn ==
    /\ build.status = "running"
    /\ build.stack # <<>>
    /\ build.stack[1].k > Len(build.stack[1].order)
    /\ build' = [build EXCEPT !.stack = Tail(build.stack),
                              !.status = IF Len(build.stack) = 1 THEN "ok" ELSE "running"]
    /\ UNCHANGED <<fs, tree, result, call, origin, prev, clock, changes, loading>>

BuildNext ==
    \/ \E dirs \in DirLists : BuildStart(RootPath, dirs)
    \/ BuildCall
    \/ BuildReturn

SpecBuild == BuildInit /\ [][BuildNext]_vars

\* the recursion returns what build_node returns
BuildAgrees ==
    /\ build.status = "ok" =>
          BuildOk(build.src_map) \in
              build_node(fs, RootPath, build.include_dirs, <<>>, NoneVersion, EmptyMap)
    /\ build.status = "err" =>
          BuildErr(build.err) \in
              build_node(fs, RootPath, build.include_dirs, <<>>, NoneVersion, EmptyMap)

\* every name a file of the filesystem can bring into a branch
AllNames == {RootPath} \cup UNION {IncludeNames(p) : p \in {q \in DOMAIN fs : fs[q].exists}}

\* the branch holds no name twice, so it is no longer than the names there are
BranchBounded ==
    /\ \A i, j \in 1..Len(build.stack) :
          i # j => build.stack[i].path # build.stack[j].path
    /\ Len(build.stack) <= Cardinality(AllNames)

\* the most include directives a file of the filesystem holds
MaxIncludes ==
    LET counts == {Cardinality(DOMAIN Includes(fs[p].lines)) : p \in DOMAIN fs}
    IN  CHOOSE n \in counts : \A c \in counts : c <= n

\* the most steps a call entered at depth d can take: it returns, and each
\* of its includes is entered and takes its own; at the depth where the branch
\* holds every name no include can be entered
RECURSIVE CallCost(_)
CallCost(d) ==
    IF d >= Cardinality(AllNames) THEN 2
    ELSE 2 + MaxIncludes * CallCost(d + 1)

\* a bound on the steps the recursion has left: for every frame its return
\* and the calls of the includes its fold has not reached
Rank(b) ==
    LET n == Len(b.stack)
        Left(i) == Len(b.stack[i].order) - b.stack[i].k + 1
        Sum[i \in 0..n] ==
            IF i = 0 THEN 0
            ELSE Sum[i - 1] + 1 + Left(i) * CallCost(n - i + 2)
    IN  IF b.status = "running" THEN Sum[n] ELSE 0

\* C13: construction terminates, with a tree or with an error, on every
\* filesystem and include graph, cycles, self-includes and diamonds included:
\* the branch never holds a name twice, the stack is never exhausted, and every
\* step of the recursion lowers a natural-number bound on the steps left
C13_Terminates ==
    [][build.status = "running" =>
          /\ build'.status \in {"running", "ok", "err"}
          /\ Rank(build') < Rank(build)
          /\ \A i, j \in 1..Len(build'.stack) :
                i # j => build'.stack[i].path # build'.stack[j].path]_vars

\* the recursion went two levels down a cyclic graph and ended with the error
C13_Witness ==
    /\ build.status = "err"
    /\ build.err.kind = "Cycle"
    /\ Len(build.stack) >= 2
    /\ Len(build.err.branch) >= 3

(***************************************************************************)
(* A root file without includes: the lines of one file, line by line       *)
(***************************************************************************)
\* how many lines the root file holds
MaxLines == 3

\* the lines a root file is made of: version lines with three, four and two
\* digits, one between whitespace, and a line of text
LinePool ==
    {VersionLine(110), VersionLine(150), VersionLine(1234), VersionLine(15),
     <<" ">> \o VersionLine(150) \o <<" ">>, BodyLine(RootPath)}

TextInit ==
    /\ fs \in {[p \in {RootPath} |-> File(lines, 0)] :
                  lines \in UNION {[1..n -> LinePool] : n \in 0..MaxLines}}
    /\ tree = NoTree
    /\ result = NoResult
    /\ call = NoCall
    /\ origin = "none"
    /\ prev = {}
    /\ clock = 0
    /\ changes = 0
    /\ loading = NoLoading
    /\ build = NoBuild

TextNext == \E dv \in DefaultVersions : Construct(RootPath, <<>>, dv)

\* the construction of a tree from one file, over every content of the file
SpecText == TextInit /\ [][TextNext]_vars

\* the root file as the constructed tree holds it
RootSrc == tree.src_map[call.path]

\* the lines of the root other than the one recorded as its version pragma
OtherLines ==
    LET ls == RootSrc.lines
        keep == {i \in 1..Len(ls) :
                    ~(RootSrc.version_pragma.some /\ RootSrc.version_pragma.line = i)}
        F[i \in 0..Len(ls)] ==
            IF i = 0 THEN <<>>
            ELSE IF i \in keep THEN Append(F[i - 1], ls[i]) ELSE F[i - 1]
    IN  F[Len(ls)]

\* the root's recorded version, else the default the caller gave
ExpectedVersion ==
    IF RootSrc.version_pragma.some THEN RootSrc.version_pragma.version
    ELSE call.default_version

NoIncludes == DOMAIN RootSrc.includes = {}

\* C14 as claimed: the rendering is the header line, a newline, and the other
\* lines joined by newlines
C14_Claim ==
    (Constructed /\ NoIncludes) =>
        render(tree) = VersionHeader(ExpectedVersion) \o <<"\n">>
                           \o JoinLines(OtherLines, <<"\n">>)

\* C14: the rendering of a root without includes is the header line
\* "#version E" followed, for each line of the file other than the recorded
\* version pragma line, in order, by a newline and that line unchanged; E is
\* the root's recorded version, else the caller's default.  No newline follows
\* the header when no other line is left.
C14_HeaderThenLines ==
    (Constructed /\ NoIncludes) =>
        render(tree) =
            VersionHeader(ExpectedVersion)
                \o (IF OtherLines = <<>> THEN <<>>
                    ELSE <<"\n">> \o JoinLines(OtherLines, <<"\n">>))

\* a root with a version pragma other than the caller's default and a line of
\* text after it
C14_Witness ==
    /\ Constructed /\ NoIncludes
    /\ RootSrc.version_pragma.some
    /\ RootSrc.version_pragma.version # call.default_version
    /\ Len(OtherLines) >= 1
    /\ RootSrc.lines[Len(RootSrc.lines)] = BodyLine(RootPath)

\* the lines of the root that match the #version directive pattern
MatchingLines == {i \in 1..Len(RootSrc.lines) : IsVersionLine(RootSrc.lines[i])}

ExactVersionDigits(line) ==
    LET nonws == {k \in 1..Len(line) : ~IsWhitespace(line[k])}
        first == CHOOSE x \in nonws : \A y \in nonws : x <= y
        last == CHOOSE x \in nonws : \A y \in nonws : y <= x
    IN  IF nonws = {} THEN <<>>
        ELSE IF /\ last - first >= 11
                /\ SubSeq(line, first, first + 7) = <<"#", "v", "e", "r", "s", "i", "o", "n">>
                /\ \A k \in (last - 2)..last : IsDigit(line[k])
                /\ \A k \in (first + 8)..(last - 3) : IsWhitespace(line[k])
             THEN SubSeq(line, last - 2, last)
             ELSE <<>>

\* C17: a line is recorded as a version pragma only when exactly three digits
\* follow the keyword; a #version line with more or fewer digits is plain text
C17_Claim ==
    Constructed =>
        /\ RootSrc.version_pragma.some =>
              ExactVersionDigits(RootSrc.lines[RootSrc.version_pragma.line]) # <<>>
        /\ (\E i \in 1..Len(RootSrc.lines) : ExactVersionDigits(RootSrc.lines[i]) # <<>>)
              => RootSrc.version_pragma.some

(***************************************************************************)
(* The order in which the includes of a node are expanded                  *)
(***************************************************************************)
\* the line indices of the include directives of a file, ascending
RECURSIVE Ascending(_)
Ascending(S) ==
    IF S = {} THEN <<>>
    ELSE LET m == CHOOSE x \in S : \A y \in S : x <= y
         IN  <<m>> \o Ascending(S \ {m})

\* the traversal the claim describes: the includes of a node in ascending line
\* order, each one checked against the branch and, when it is no cycle, fully
\* expanded before the next one is looked at; the first error met ends it
RECURSIVE LineOrderBuild(_, _, _, _)
RECURSIVE LineOrderFold(_, _, _, _, _, _)
LineOrderBuild(path, branch, version, m) ==
    LET ld == IF branch = <<>> THEN load(fs, path, <<>>) ELSE load(fs, path, CallDirs)
        src == ld.src
    IN  IF ~ld.ok THEN BuildErr(IoError)
        ELSE IF /\ version.some
                /\ src.version_pragma.some
                /\ version.v # src.version_pragma.version
        THEN BuildErr(VersionMismatch(version.v, src.version_pragma.version, path))
        ELSE LineOrderFold(src.includes, Ascending(DOMAIN src.includes), 1,
                           PushFront(branch, path),
                           IF branch = <<>> THEN RootVersion(src) ELSE version,
                           BuildOk(MapInsert(m, path, src)))

LineOrderFold(includes, order, k, branch, version, acc) ==
    IF k > Len(order) \/ ~acc.ok THEN acc
    ELSE LET name == includes[order[k]]
         IN  IF \E j \in 1..Len(branch) : branch[j] = name
             THEN BuildErr(CycleError(PushFront(branch, name)))
             ELSE LineOrderFold(includes, order, k + 1, branch, version,
                                LineOrderBuild(name, branch, version, acc.map))

\* C16: construction returns what the depth-first traversal in line order
\* returns: the same success or the same first error, on every run
C16_Claim ==
    result.op = "new" =>
        LET ref == LineOrderBuild(call.path, <<>>, NoneVersion, EmptyMap)
        IN  /\ result.ok = ref.ok
            /\ result.err = ref.err

(***************************************************************************)
(* refresh() on an unchanged filesystem                                    *)
(***************************************************************************)
\* C18: a refresh made while no file has changed since the tree was built
\* returns a tree that renders as the tree it replaces
C18_Claim ==
    [][(/\ tree.built
        /\ origin \in {"new", "refresh"}
        /\ result'.op = "refresh"
        /\ result'.ok)
          => render(tree') = render(tree)]_vars

(***************************************************************************)
(* A writer interleaved with load                                          *)
(***************************************************************************)
\* C19: when the content load returned differs from the content on disk, the
\* modification time it recorded is older than the file's, and expired() on
\* the value returned is true
C19_Claim ==
    (/\ loading.pc = "done"
     /\ loading.src.lines # fs[loading.src.path].lines)
        => SrcExpired(fs, loading.src) = "true"

(***************************************************************************)
(* What expired() = Ok(false) says about a refresh                         *)
(***************************************************************************)
\* C20: when expired() returns Ok(false), a refresh at that moment succeeds
\* with the same names resolved to the same paths as the tree holds
C20_Claim ==
    (ExpiredAsked /\ result.ok /\ ~result.value) =>
        \A r \in refresh(fs, tree) :
            /\ r.ok
            /\ DOMAIN r.tree.src_map = DOMAIN tree.src_map
            /\ \A k \in DOMAIN tree.src_map :
                  r.tree.src_map[k].path = tree.src_map[k].path

====
